---- MODULE Spec2Model ----
(***************************************************************************)
(* Model of app.py, the Breakup Recovery Squad page.  One script run of a  *)
(* session is a sequence of steps: the page head with the credential       *)
(* guard, the "Get Recovery Plan" handler (input check, initialize_agents, *)
(* process_images, the four persona invocations) and the chat section.     *)
(* Sessions keep their own widget values and session_state; the temporary  *)
(* directory that process_images writes to is one per host.                *)
(*                                                                         *)
(* A text is a sequence of tokens; the tokens " " and "\n" are whitespace. *)
(* The empty sequence stands for every falsy widget value ("" and None).   *)
(***************************************************************************)
EXTENDS Integers, Sequences, FiniteSets, TLC

\* most images in one upload
MaxFiles == 2
\* most chat messages a session submits
MaxChat == 2

Sessions == {"A", "B"}
Names == {"a.png", "b.png"}
Absent == "absent"
Truncated == "truncated"

Fallback == <<"Something went wrong. Please try again.">>
InitErrorMsg == "Error initializing agents"
InitFailedMsg == "Initialization failed. Check your API key."
NoKeyMsg == "Please enter your Gemini API Key in the sidebar."
NoInputMsg == "Please provide your feelings or upload images."
BannerMsg == "Personalized Recovery Plan Generated!"

Whitespace == {" ", "\n"}

VARIABLES
    tmp,              \* tempfile.gettempdir(): file name -> who wrote it last
    pc,               \* position of the session's script run
    api_key, user_input, uploaded_files, button, user_chat_input,
    agents,           \* therapist, closure, planner, honest are bound
    init_raised,      \* initialize_agents took its except branch (this run)
    images,           \* the list process_images builds
    idx,              \* process_images: number of files looked at
    staged,           \* process_images: indices whose staging succeeded
    has_history,      \* "chat_history" in st.session_state
    chat_history,     \* st.session_state.chat_history
    calls,            \* persona invocations of this run, in order
    panels,           \* result panels rendered in this run, in order
    msgs,             \* st.warning / st.error / st.success texts of this run
    h0,               \* chat_history when the run started
    tmp0,             \* tmp when the run started
    chat_raised,      \* the chat try block raised (this run)
    submitted         \* chat messages handled so far, in order

inputs == <<api_key, user_input, uploaded_files, button, user_chat_input>>
plan == <<agents, init_raised, images, idx, staged>>
session == <<has_history, chat_history>>
screen == <<calls, panels, msgs>>
ghost == <<h0, tmp0, chat_raised, submitted>>
vars == <<tmp, pc, inputs, plan, session, screen, ghost>>

----------------------------------------------------------------------------
\* Texts

RECURSIVE LStrip(_)
LStrip(t) == IF t # <<>> /\ Head(t) \in Whitespace THEN LStrip(Tail(t)) ELSE t

RECURSIVE RStrip(_)
RStrip(t) ==
    IF t # <<>> /\ t[Len(t)] \in Whitespace
    THEN RStrip(SubSeq(t, 1, Len(t) - 1)) ELSE t

\* str.strip()
Strip(t) == RStrip(LStrip(t))

\* f"User: {m[1]}" if m[0] == "user" else f"Therapist: {m[1]}"
ChatLine(m) == IF m[1] = "user" THEN <<"User: ">> \o m[2]
                                ELSE <<"Therapist: ">> \o m[2]

\* "\n".join([... for m in st.session_state.chat_history])
RECURSIVE ChatPrompt(_)
ChatPrompt(h) ==
    IF h = <<>> THEN <<>>
    ELSE IF Len(h) = 1 THEN ChatLine(h[1])
    ELSE ChatLine(h[1]) \o <<"\n">> \o ChatPrompt(Tail(h))

PlanHeader(p) ==
    CASE p = "therapist" -> <<"Analyze and comfort:", "\n">>
      [] p = "closure"   -> <<"Help write unsent messages:", "\n">>
      [] p = "planner"   -> <<"Design a 7-day challenge:", "\n">>
      [] p = "honest"    -> <<"Give me the truth:", "\n">>

\* message=f"<header>\n{user_input}"
PlanMessage(p, text) == PlanHeader(p) \o text

----------------------------------------------------------------------------
\* The pieces of the script the steps below are built from

Final == {"stopped", "crashed", "done"}

Seqs(S, n) == UNION {[1..k -> S] : k \in 0..n}

\* what st.file_uploader can hand to session s: each file carries the
\* session's own bytes
UploadsOf(s, names) == Seqs([name : names, data : {s}], MaxFiles)

\* the credential guard left out
NoKeyNever(k) == FALSE

\* if not api_key:
NoKey(k) == k = <<>>

\* "or" in place of "and" in the input check
NoInputEither(text, files) == text = <<>> \/ files = <<>>

\* if not user_input and not uploaded_files:
NoInput(text, files) == text = <<>> /\ files = <<>>

\* the result of initialize_agents not checked
InitFailedNever(bound) == FALSE

\* if not all([therapist, closure, planner, honest]):
InitFailed(bound) == ~bound

\* os.path.join(tempfile.gettempdir(), file.name)
TmpPath(file) == file.name

\* the attachment appended before the write is attempted
StageResultAlways(imgs, path, ok) == Append(imgs, path)

\* processed.append(AgnoImage(filepath=Path(tmp_path))), or the except branch
StageResult(imgs, path, ok) == IF ok THEN Append(imgs, path) ELSE imgs

\* what a persona reads through the attachment list when it is invoked
Attach(imgs, fs) ==
    [i \in DOMAIN imgs |-> [filepath |-> imgs[i], data |-> fs[imgs[i]]]]

\* the closure and planner blocks exchanged
NextPcSwapped(p) ==
    CASE p = "therapist" -> "planner"
      [] p = "planner"   -> "closure"
      [] p = "closure"   -> "honest"
      [] p = "honest"    -> "chat"

\* the order of the four blocks of the handler
NextPc(p) ==
    CASE p = "therapist" -> "closure"
      [] p = "closure"   -> "planner"
      [] p = "planner"   -> "honest"
      [] p = "honest"    -> "chat"

\* the panel header rendered before run() is called
PanelsAfterAlways(ps, p, ok) == Append(ps, p)

\* st.markdown("### ...") and the panel body follow a run() that returned
PanelsAfter(ps, p, ok) == IF ok THEN Append(ps, p) ELSE ps

\* insert(0, ...) in place of append
AppendTurnFront(h, role, msg) == << <<role, msg>> >> \o h

\* st.session_state.chat_history.append((role, msg))
AppendTurn(h, role, msg) == Append(h, <<role, msg>>)

\* the except branch taking the user's turn back
ChatExceptRollback(h) ==
    Append(SubSeq(h, 1, Len(h) - 1), <<"therapist", Fallback>>)

\* except Exception: reply = "Something went wrong..."; append
ChatExcept(h) == AppendTurn(h, "therapist", Fallback)

\* chat_response.content values of a run() that returned text
Contents == {<<" ", "ok", "\n">>}

Call(p, kind, message, imgs, ok) ==
    [agent |-> p, kind |-> kind, message |-> message, images |-> imgs,
     ok |-> ok]

----------------------------------------------------------------------------
Init ==
    /\ tmp = [n \in Names |-> Absent]
    /\ pc = [s \in Sessions |-> "idle"]
    /\ api_key = [s \in Sessions |-> <<>>]
    /\ user_input = [s \in Sessions |-> <<>>]
    /\ uploaded_files = [s \in Sessions |-> <<>>]
    /\ button = [s \in Sessions |-> FALSE]
    /\ user_chat_input = [s \in Sessions |-> <<>>]
    /\ agents = [s \in Sessions |-> FALSE]
    /\ init_raised = [s \in Sessions |-> FALSE]
    /\ images = [s \in Sessions |-> <<>>]
    /\ idx = [s \in Sessions |-> 0]
    /\ staged = [s \in Sessions |-> {}]
    /\ has_history = [s \in Sessions |-> FALSE]
    /\ chat_history = [s \in Sessions |-> <<>>]
    /\ calls = [s \in Sessions |-> <<>>]
    /\ panels = [s \in Sessions |-> <<>>]
    /\ msgs = [s \in Sessions |-> {}]
    /\ h0 = [s \in Sessions |-> <<>>]
    /\ tmp0 = [s \in Sessions |-> [n \in Names |-> Absent]]
    /\ chat_raised = [s \in Sessions |-> FALSE]
    /\ submitted = [s \in Sessions |-> <<>>]

\* the k-th chat message a session submits
ChatMsg(k) ==
    IF k = 1 THEN <<"Hello">>
    ELSE IF k = 2 THEN <<"I", " ", "feel", " ", "better">>
    ELSE <<"Thanks">>

\* A widget interaction starts a script run: the page head up to the
\* credential guard.
StartRun(s, Keys, Texts, Uploads, Buttons, ChatCap) ==
    /\ pc[s] = "idle"
    /\ \E k \in Keys, t \in Texts, u \in Uploads, b \in Buttons,
          chat \in BOOLEAN :
        /\ chat => Len(submitted[s]) < ChatCap
        /\ api_key' = [api_key EXCEPT ![s] = k]
        /\ user_input' = [user_input EXCEPT ![s] = t]
        /\ uploaded_files' = [uploaded_files EXCEPT ![s] = u]
        /\ button' = [button EXCEPT ![s] = b]
        /\ user_chat_input' = [user_chat_input EXCEPT ![s] =
               IF chat THEN ChatMsg(Len(submitted[s]) + 1) ELSE <<>>]
        /\ IF NoKey(k)
           THEN /\ msgs' = [msgs EXCEPT ![s] = {NoKeyMsg}]
                /\ pc' = [pc EXCEPT ![s] = "stopped"]
           ELSE /\ msgs' = [msgs EXCEPT ![s] = {}]
                /\ pc' = [pc EXCEPT ![s] = "button"]
    /\ h0' = [h0 EXCEPT ![s] = chat_history[s]]
    /\ tmp0' = [tmp0 EXCEPT ![s] = tmp]
    /\ UNCHANGED <<tmp, plan, session, calls, panels, chat_raised, submitted>>

\* The script run is over (st.stop(), an uncaught exception, or the end of
\* the script): its namespace and its output are discarded, the session
\* state and the temporary files stay.
EndRun(s) ==
    /\ pc[s] \in Final
    /\ pc' = [pc EXCEPT ![s] = "idle"]
    /\ api_key' = [api_key EXCEPT ![s] = <<>>]
    /\ user_input' = [user_input EXCEPT ![s] = <<>>]
    /\ uploaded_files' = [uploaded_files EXCEPT ![s] = <<>>]
    /\ button' = [button EXCEPT ![s] = FALSE]
    /\ user_chat_input' = [user_chat_input EXCEPT ![s] = <<>>]
    /\ agents' = [agents EXCEPT ![s] = FALSE]
    /\ init_raised' = [init_raised EXCEPT ![s] = FALSE]
    /\ images' = [images EXCEPT ![s] = <<>>]
    /\ idx' = [idx EXCEPT ![s] = 0]
    /\ staged' = [staged EXCEPT ![s] = {}]
    /\ calls' = [calls EXCEPT ![s] = <<>>]
    /\ panels' = [panels EXCEPT ![s] = <<>>]
    /\ msgs' = [msgs EXCEPT ![s] = {}]
    /\ h0' = [h0 EXCEPT ![s] = chat_history[s]]
    /\ tmp0' = [tmp0 EXCEPT ![s] = tmp]
    /\ chat_raised' = [chat_raised EXCEPT ![s] = FALSE]
    /\ UNCHANGED <<tmp, session, submitted>>

\* if st.button("Get Recovery Plan"): and the input check
ButtonCheck(s) ==
    /\ pc[s] = "button"
    /\ IF ~button[s]
       THEN /\ pc' = [pc EXCEPT ![s] = "chat"]
            /\ UNCHANGED msgs
       ELSE IF NoInput(user_input[s], uploaded_files[s])
       THEN /\ msgs' = [msgs EXCEPT ![s] = @ \cup {NoInputMsg}]
            /\ pc' = [pc EXCEPT ![s] = "stopped"]
       ELSE /\ pc' = [pc EXCEPT ![s] = "init"]
            /\ UNCHANGED msgs
    /\ UNCHANGED <<tmp, inputs, plan, session, calls, panels, ghost>>

\* initialize_agents(api_key) and the check of its result.  Whether the
\* provider or a persona constructor raises is the library's decision.
InitializeAgents(s) ==
    /\ pc[s] = "init"
    /\ \E raises \in BOOLEAN :
        /\ init_raised' = [init_raised EXCEPT ![s] = raises]
        /\ agents' = [agents EXCEPT ![s] = ~raises]
        /\ IF InitFailed(~raises)
           THEN /\ msgs' = [msgs EXCEPT ![s] =
                        @ \cup (IF raises THEN {InitErrorMsg} ELSE {})
                          \cup {InitFailedMsg}]
                /\ pc' = [pc EXCEPT ![s] = "stopped"]
           ELSE /\ msgs' = [msgs EXCEPT ![s] =
                        @ \cup (IF raises THEN {InitErrorMsg} ELSE {})]
                /\ pc' = [pc EXCEPT ![s] = "stage"]
    /\ UNCHANGED <<tmp, inputs, images, idx, staged, session, calls, panels,
                   ghost>>

\* process_images: one iteration of the loop.  open() may raise (nothing
\* written), write() may raise after open() truncated the file, or the
\* image is written and appended.
StageFile(s) ==
    /\ pc[s] = "stage"
    /\ idx[s] < Len(uploaded_files[s])
    /\ LET i == idx[s] + 1
           file == uploaded_files[s][i]
           path == TmpPath(file)
       IN  /\ idx' = [idx EXCEPT ![s] = i]
           /\ \/ /\ tmp' = [tmp EXCEPT ![path] = file.data]
                 /\ images' = [images EXCEPT ![s] = StageResult(@, path, TRUE)]
                 /\ staged' = [staged EXCEPT ![s] = @ \cup {i}]
              \/ /\ tmp' \in {tmp, [tmp EXCEPT ![path] = Truncated]}
                 /\ images' = [images EXCEPT ![s] = StageResult(@, path, FALSE)]
                 /\ UNCHANGED staged
    /\ UNCHANGED <<pc, inputs, agents, init_raised, session, screen, ghost>>

\* process_images returns; st.markdown("## Your Recovery Squad Results")
StageDone(s) ==
    /\ pc[s] = "stage"
    /\ idx[s] >= Len(uploaded_files[s])
    /\ pc' = [pc EXCEPT ![s] = "therapist"]
    /\ UNCHANGED <<tmp, inputs, plan, session, screen, ghost>>

\* One block of the handler: <persona>.run(message=..., images=images),
\* then the panel.  An exception of run() is not caught: the run ends.
Invoke(s, p) ==
    /\ pc[s] = p
    /\ IF ~agents[s]
       THEN \* None.run: AttributeError before any invocation
            /\ pc' = [pc EXCEPT ![s] = "crashed"]
            /\ UNCHANGED screen
       ELSE \E ok \in BOOLEAN :
            /\ calls' = [calls EXCEPT ![s] = Append(@,
                   Call(p, "plan", PlanMessage(p, user_input[s]),
                        Attach(images[s], tmp), ok))]
            /\ panels' = [panels EXCEPT ![s] = PanelsAfter(@, p, ok)]
            /\ pc' = [pc EXCEPT ![s] = IF ok THEN NextPc(p) ELSE "crashed"]
            /\ msgs' = [msgs EXCEPT ![s] =
                   IF ok /\ NextPc(p) = "chat" THEN @ \cup {BannerMsg} ELSE @]
    /\ UNCHANGED <<tmp, inputs, plan, session, ghost>>

Therapist(s) == Invoke(s, "therapist")
Closure(s) == Invoke(s, "closure")
Planner(s) == Invoke(s, "planner")
Honest(s) == Invoke(s, "honest")

\* the chat section up to the append of the user's turn
ChatSection(s) ==
    /\ pc[s] = "chat"
    /\ has_history' = [has_history EXCEPT ![s] = TRUE]
    /\ LET h == IF has_history[s] THEN chat_history[s] ELSE <<>>
       IN  IF user_chat_input[s] # <<>>
           THEN /\ chat_history' = [chat_history EXCEPT ![s] =
                        AppendTurn(h, "user", user_chat_input[s])]
                /\ pc' = [pc EXCEPT ![s] = "reply"]
           ELSE /\ chat_history' = [chat_history EXCEPT ![s] = h]
                /\ pc' = [pc EXCEPT ![s] = "done"]
    /\ UNCHANGED <<tmp, inputs, plan, screen, ghost>>

\* the try/except around therapist.run(message=chat_prompt), then the
\* display of the transcript and the footer
ChatReply(s) ==
    /\ pc[s] = "reply"
    /\ LET h == chat_history[s]
           prompt == ChatPrompt(h)
       IN  IF ~agents[s]
           THEN \* the name therapist is not bound in this run: NameError
                /\ chat_history' = [chat_history EXCEPT ![s] = ChatExcept(h)]
                /\ chat_raised' = [chat_raised EXCEPT ![s] = TRUE]
                /\ UNCHANGED calls
           ELSE \/ \E c \in Contents :
                    /\ calls' = [calls EXCEPT ![s] = Append(@,
                           Call("therapist", "chat", prompt, <<>>, TRUE))]
                    /\ chat_history' = [chat_history EXCEPT ![s] =
                           AppendTurn(h, "therapist", Strip(c))]
                    /\ UNCHANGED chat_raised
                \/ \* run() raises, or returns content None and
                   \* .strip() raises
                   \E returned \in BOOLEAN :
                    /\ calls' = [calls EXCEPT ![s] = Append(@,
                           Call("therapist", "chat", prompt, <<>>, returned))]
                    /\ chat_history' = [chat_history EXCEPT ![s] =
                           ChatExcept(h)]
                    /\ chat_raised' = [chat_raised EXCEPT ![s] = TRUE]
    /\ submitted' = [submitted EXCEPT ![s] = Append(@, user_chat_input[s])]
    /\ pc' = [pc EXCEPT ![s] = "done"]
    /\ UNCHANGED <<tmp, inputs, plan, has_history, panels, msgs, h0, tmp0>>

Step(s) ==
    \/ EndRun(s)
    \/ ButtonCheck(s)
    \/ InitializeAgents(s)
    \/ StageFile(s)
    \/ StageDone(s)
    \/ Therapist(s)
    \/ Closure(s)
    \/ Planner(s)
    \/ Honest(s)
    \/ ChatSection(s)
    \/ ChatReply(s)

Keys == {<<>>, <<"key">>}
Texts == {<<>>, <<"sad">>}

\* one session
Next ==
    \/ StartRun("A", Keys, Texts, UploadsOf("A", Names), BOOLEAN, MaxChat)
    \/ Step("A")

Spec == Init /\ [][Next]_vars

\* two sessions served concurrently on one host; both stage a.png
ConcUploads(s) == {u \in UploadsOf(s, {"a.png"}) : Len(u) <= 1}

NextConc ==
    \/ StartRun("A", {<<"key">>}, {<<"sad">>}, ConcUploads("A"), BOOLEAN, 1)
    \/ StartRun("B", {<<"key">>}, {<<"sad">>}, ConcUploads("B") \ {<<>>},
                {TRUE}, 0)
    \/ \E s \in Sessions : Step(s)

SpecConc == Init /\ [][NextConc]_vars

----------------------------------------------------------------------------
\* Properties

Order == <<"therapist", "closure", "planner", "honest">>

IsPrefix(a, b) == Len(a) <= Len(b) /\ SubSeq(b, 1, Len(a)) = a

IsPlan(c) == c.kind = "plan"
IsChat(c) == c.kind = "chat"
Returned(c) == c.ok

PlanCalls(s) == SelectSeq(calls[s], IsPlan)
ChatCalls(s) == SelectSeq(calls[s], IsChat)
AgentsOf(cs) == [i \in DOMAIN cs |-> cs[i].agent]

\* the handler of the button ran to its end in the current run
HandlerDone(s) == button[s] /\ pc[s] \in {"chat", "reply", "done"}

\* C1: in a submission that passes the input and initialization checks and
\* in which no invocation raises, the handler invokes therapist, closure,
\* planner, honest, each once and in this order; at every moment the
\* handler's invocations so far are a prefix of that order.
C1_FixedOrder ==
    \A s \in Sessions :
        /\ IsPrefix(AgentsOf(PlanCalls(s)), Order)
        /\ HandlerDone(s) => AgentsOf(PlanCalls(s)) = Order

C1_Witness ==
    /\ pc["A"] = "done" /\ button["A"]
    /\ Len(PlanCalls("A")) = 4
    /\ \A i \in 1..4 : PlanCalls("A")[i].ok

\* C2: a chat message is answered by exactly one invocation of the
\* therapist, whose prompt is the serialised transcript including the turn
\* just appended.
C2_ChatInvokesTherapist ==
    \A s \in Sessions :
        (pc[s] = "done" /\ user_chat_input[s] # <<>>) =>
            /\ Len(ChatCalls(s)) = 1
            /\ ChatCalls(s)[1].agent = "therapist"
            /\ ChatCalls(s)[1].message =
                   ChatPrompt(AppendTurn(h0[s], "user", user_chat_input[s]))

\* the transcript after the chat messages in submitted were handled
WellFormed(s) ==
    LET h == chat_history[s]
        k == Len(submitted[s])
    IN  /\ Len(h) = 2 * k + (IF pc[s] = "reply" THEN 1 ELSE 0)
        /\ \A i \in 1..k : /\ h[2 * i - 1] = <<"user", submitted[s][i]>>
                           /\ h[2 * i][1] = "therapist"
        /\ pc[s] = "reply" => h[Len(h)] = <<"user", user_chat_input[s]>>

\* C3: the transcript only grows at its end, and after k chat messages it is
\* (user, m1), (therapist, r1), ..., (user, mk), (therapist, rk) in the
\* order of submission.
C3_AppendOnly ==
    /\ [](\A s \in Sessions : WellFormed(s))
    /\ [][\A s \in Sessions : IsPrefix(chat_history[s], chat_history'[s])]_vars

C3_Witness ==
    /\ pc["A"] = "done" /\ Len(submitted["A"]) = 2
    /\ Len(chat_history["A"]) = 4
    /\ submitted["A"][1] # submitted["A"][2]

\* C4: when the chat try block raises, the run still ends normally and the
\* transcript is the one at the start of the run, the user's turn, and one
\* therapist turn holding the fallback string.
C4_Fallback ==
    \A s \in Sessions :
        chat_raised[s] =>
            /\ pc[s] = "done"
            /\ chat_history[s] =
                 h0[s] \o << <<"user", user_chat_input[s]>>,
                             <<"therapist", Fallback>> >>

C4_Witness ==
    /\ chat_raised["A"]
    /\ Len(submitted["A"]) = 2
    /\ h0["A"] # <<>>

\* C5: when construction raises in initialize_agents, the four handles are
\* None, both errors are shown, the run stops, and the run has invoked no
\* persona, staged no image and rendered no panel.
C5_InitFailureStops ==
    \A s \in Sessions :
        init_raised[s] =>
            /\ ~agents[s]
            /\ {InitErrorMsg, InitFailedMsg} \subseteq msgs[s]
            /\ pc[s] = "stopped"
            /\ calls[s] = <<>> /\ panels[s] = <<>>
            /\ idx[s] = 0 /\ images[s] = <<>> /\ staged[s] = {}
            /\ tmp = tmp0[s]
            /\ chat_history[s] = h0[s]

C5_Witness ==
    /\ init_raised["A"]
    /\ uploaded_files["A"] # <<>>
    /\ user_chat_input["A"] # <<>>

\* C6: the panels of a run are exactly the handler's invocations that
\* returned, in order; an invocation that raised is the last thing the run
\* did; the success banner is shown only with all four panels.
C6_Panels ==
    \A s \in Sessions :
        LET pcs == PlanCalls(s)
        IN  /\ panels[s] = AgentsOf(SelectSeq(pcs, Returned))
            /\ IsPrefix(panels[s], Order)
            /\ \A i \in 1..Len(pcs) :
                 ~pcs[i].ok => /\ i = Len(pcs)
                               /\ calls[s][Len(calls[s])] = pcs[i]
                               /\ pc[s] = "crashed"
                               /\ panels[s] = SubSeq(Order, 1, i - 1)
            /\ BannerMsg \in msgs[s] => panels[s] = Order

C6_Witness ==
    /\ pc["A"] = "crashed"
    /\ panels["A"] = <<"therapist", "closure">>
    /\ Len(PlanCalls("A")) = 3

\* the staging paths of the files among the first n whose index is in ok
RECURSIVE PathsOf(_, _, _)
PathsOf(files, n, ok) ==
    IF n = 0 THEN <<>>
    ELSE IF n \in ok THEN Append(PathsOf(files, n - 1, ok), TmpPath(files[n]))
    ELSE PathsOf(files, n - 1, ok)

\* C7: the list process_images builds holds one attachment for each image
\* whose staging succeeded, in upload order, and none for the others; it
\* looks at every uploaded image and returns to the handler.
C7_StagedList ==
    \A s \in Sessions :
        /\ images[s] = PathsOf(uploaded_files[s], idx[s], staged[s])
        /\ staged[s] \subseteq 1..idx[s]
        /\ (agents[s] /\ pc[s] # "stage") =>
               idx[s] = Len(uploaded_files[s])

C7_Witness ==
    /\ pc["A"] = "therapist"
    /\ Len(uploaded_files["A"]) = 2
    /\ staged["A"] = {2}

\* C8: a submission with text and no images passes the empty list to every
\* persona and writes no temporary file; it stops only if initialization
\* fails, and when no invocation raises all four personas are invoked.
C8_NoImages ==
    \A s \in Sessions :
        (button[s] /\ api_key[s] # <<>> /\ user_input[s] # <<>>
                   /\ uploaded_files[s] = <<>>) =>
            /\ images[s] = <<>>
            /\ \A i \in 1..Len(PlanCalls(s)) : PlanCalls(s)[i].images = <<>>
            /\ tmp = tmp0[s]
            /\ pc[s] = "stopped" => InitFailedMsg \in msgs[s]
            /\ pc[s] \in {"chat", "reply", "done"} => Len(PlanCalls(s)) = 4

C8_Witness ==
    /\ pc["A"] = "done" /\ button["A"]
    /\ uploaded_files["A"] = <<>> /\ user_input["A"] # <<>>
    /\ Len(PlanCalls("A")) = 4
    /\ \E n \in Names : tmp[n] # Absent

\* C9: a run with an empty credential shows the warning and stops: no
\* persona is constructed or invoked, no image is staged, and the transcript
\* is as it was.
C9_NoKey ==
    \A s \in Sessions :
        (pc[s] # "idle" /\ api_key[s] = <<>>) =>
            /\ pc[s] = "stopped"
            /\ msgs[s] = {NoKeyMsg}
            /\ ~agents[s] /\ ~init_raised[s]
            /\ calls[s] = <<>> /\ panels[s] = <<>>
            /\ idx[s] = 0 /\ images[s] = <<>>
            /\ tmp = tmp0[s]
            /\ chat_history[s] = h0[s]
            /\ Len(chat_history[s]) = 2 * Len(submitted[s])

C9_Witness ==
    /\ pc["A"] = "stopped" /\ api_key["A"] = <<>>
    /\ button["A"] /\ uploaded_files["A"] # <<>>
    /\ user_chat_input["A"] # <<>>
    /\ chat_history["A"] # <<>>

\* C10: what a session's persona invocations read through the attachment
\* list is what that session uploaded.
C10_Isolation ==
    \A s \in Sessions :
        \A i \in 1..Len(calls[s]) :
            \A j \in 1..Len(calls[s][i].images) :
                calls[s][i].images[j].data = s

====
